---- MODULE Spec2Model ----
(***************************************************************************)
(* Model of src/font.rs of material_design_icons: Font, FontMapper, Glyph, *)
(* BitmapExt and FontError.  The font buffer is immutable; what the        *)
(* allsorts decoder reads out of it (the character-map subtable, the glyph *)
(* names, the structural faults) is fixed in Init and never changes.       *)
(***************************************************************************)
EXTENDS Integers, Sequences, FiniteSets, TLC

VARIABLES font, mappers, memo, last

vars == <<font, mappers, memo, last>>

\* ---------------------------------------------------------------- bounds
MaxEntries == 3     \* declared (codepoint, glyph id) pairs in a subtable
MaxGlyphId == 3     \* glyph ids 1..MaxGlyphId can be mapped; 0 is .notdef
MaxMappers == 1     \* FontMapper values alive at once
MaxBytes == 3       \* length of a bitmap payload

\* ------------------------------------------------------- value universes
\* u32 arguments handed to index_of / find_glyph: around the surrogates and 0x10FFFF
CodePoints == {65, 55295, 55296, 57343, 58826, 1114111, 1114112}

\* codepoints a subtable of the universe may declare (0xD800 is a surrogate)
MappableCodePoints == {65, 55296, 58826}

GlyphIds == 1..MaxGlyphId

Bytes == {0, 137, 255}

\* Option<T>: None is the empty sequence, Some(x) the one-element sequence
None == <<>>
Some(x) == <<x>>

\* Result<T, E>
Ok(v) == [ok |-> TRUE, val |-> v, err |-> <<>>]
Err(e) == [ok |-> FALSE, val |-> <<>>, err |-> <<e>>]

\* errors of the decoder: allsorts::error::{ParseError, ReadWriteError}
DecodeErrors ==
  { [kind |-> "ParseError", cause |-> "BadEof"],
    [kind |-> "ParseError", cause |-> "BadIndex"],
    [kind |-> "ReadWriteError", cause |-> "Read"] }

NoError == [kind |-> "ParseError", cause |-> "BadEof"]

\* impl From<ParseError> / From<ReadWriteError> for FontError: the `?` of
\* every fallible call wraps the decoder's error in the variant of its kind
FontErrorFrom(e) == [variant |-> e.kind, source |-> e]

\* ------------------------------------------------------------------ font
\* sequences of length <= n over S
RECURSIVE SeqsUpTo(_, _)
SeqsUpTo(S, n) ==
  IF n = 0 THEN {<<>>}
  ELSE LET shorter == SeqsUpTo(S, n - 1)
       IN shorter \cup {Append(s, x) : s \in {t \in shorter : Len(t) = n - 1}, x \in S}

\* a subtable declares each codepoint at most once, in its native order
CmapEntries ==
  {s \in SeqsUpTo([codepoint : MappableCodePoints, id : GlyphIds], MaxEntries) :
     \A i, j \in 1..Len(s) : i # j => s[i].codepoint # s[j].codepoint}

\* where the buffer is structurally broken, and the error decoding there gives
Faults ==
  {[site |-> "none", err |-> NoError, codepoint |-> 0]}
    \cup {[site |-> "read", err |-> e, codepoint |-> 0] : e \in DecodeErrors}
    \cup {[site |-> "mappings", err |-> e, codepoint |-> 0] :
            e \in {d \in DecodeErrors : d.cause = "BadEof"}}
    \cup {[site |-> "map_glyph", err |-> e, codepoint |-> c] :
            e \in {d \in DecodeErrors : d.cause = "BadIndex"}, c \in {65, 58826}}

GlyphNameTable(id) ==
  CASE id = 1 -> "add"
    [] id = 2 -> "neurology"
    [] id = 3 -> "home"
    [] OTHER -> "glyph"

\* the glyph ids with a name; glyph ids being interchangeable, the named
\* ones are taken to be the first k
NamedSets == {1..k : k \in 0..MaxGlyphId}

Fonts == [entries : CmapEntries, named : NamedSets, fault : Faults]

\* from_u32 without the surrogate gap
from_u32_no_surrogate_gap(c) ==
  IF c <= 1114111 THEN Some(c) ELSE None

\* std::char::from_u32
from_u32(c) ==
  IF c <= 1114111 /\ ~(c >= 55296 /\ c <= 57343) THEN Some(c) ELSE None

\* CmapSubtable::map_glyph(ch)
map_glyph(f, c) ==
  IF f.fault.site = "map_glyph" /\ f.fault.codepoint = c THEN Err(f.fault.err)
  ELSE LET hits == {i \in 1..Len(f.entries) : f.entries[i].codepoint = c}
       IN IF hits = {} THEN Ok(None)
          ELSE Ok(Some(f.entries[CHOOSE i \in hits : TRUE].id))

\* allsorts::Font::glyph_names(&[id]): the names the font resolves, in order
glyph_names(f, ids) ==
  IF Len(ids) = 1 /\ ids[1] \in f.named THEN <<GlyphNameTable(ids[1])>> ELSE <<>>

\* Vec::pop
pop(v) == IF Len(v) = 0 THEN None ELSE Some(v[Len(v)])

\* Font::glyph_name
glyph_name(f, id) == pop(glyph_names(f, <<id>>))

\* allsorts::Font::lookup_glyph_index(ch, NotRequired, None): infallible,
\* glyph 0 when the subtable gives nothing for ch
lookup_glyph_index(f, ch) ==
  LET r == map_glyph(f, ch)
  IN IF r.ok /\ r.val # None THEN r.val[1] ELSE 0

\* Font::index_of
index_of(f, codepoint) ==
  LET char == from_u32(codepoint)
  IN IF char = None THEN None
     ELSE Some(lookup_glyph_index(f, char[1]))

\* find_glyph keeping a glyph without a name, under the empty name
find_glyph_unnamed_kept(f, codepoint) ==
  LET id == map_glyph(f, codepoint)
  IN IF ~id.ok THEN Err(FontErrorFrom(id.err[1]))
     ELSE IF id.val = None THEN Ok(None)
     ELSE LET name == glyph_name(f, id.val[1])
          IN Ok(Some([id |-> id.val[1], codepoint |-> codepoint,
                      name |-> IF name = None THEN "" ELSE name[1]]))

\* find_glyph treating a missing mapping as a failure
find_glyph_missing_is_error(f, codepoint) ==
  LET id == map_glyph(f, codepoint)
  IN IF ~id.ok THEN Err(FontErrorFrom(id.err[1]))
     ELSE IF id.val = None
       THEN Err(FontErrorFrom([kind |-> "ParseError", cause |-> "MissingValue"]))
     ELSE LET name == glyph_name(f, id.val[1])
          IN IF name = None THEN Ok(None)
             ELSE Ok(Some([id |-> id.val[1], codepoint |-> codepoint, name |-> name[1]]))

\* find_glyph storing the glyph id in the codepoint field
find_glyph_id_as_codepoint(f, codepoint) ==
  LET id == map_glyph(f, codepoint)
  IN IF ~id.ok THEN Err(FontErrorFrom(id.err[1]))
     ELSE IF id.val = None THEN Ok(None)
     ELSE LET name == glyph_name(f, id.val[1])
          IN IF name = None THEN Ok(None)
             ELSE Ok(Some([id |-> id.val[1], codepoint |-> id.val[1], name |-> name[1]]))

\* FontMapper::find_glyph
find_glyph(f, codepoint) ==
  LET id == map_glyph(f, codepoint)
  IN IF ~id.ok THEN Err(FontErrorFrom(id.err[1]))
     ELSE IF id.val = None THEN Ok(None)
     ELSE LET name == glyph_name(f, id.val[1])
          IN IF name = None THEN Ok(None)
             ELSE Ok(Some([id |-> id.val[1], codepoint |-> codepoint, name |-> name[1]]))

\* CmapSubtable::mappings(): a HashMap<u16, u32> from glyph id to codepoint,
\* filled in the subtable's order, so a later pair replaces an earlier pair
\* of the same glyph id
MappingsMap(f) ==
  LET ids == {f.entries[i].id : i \in 1..Len(f.entries)}
      lastOf(g) == CHOOSE i \in 1..Len(f.entries) :
                     /\ f.entries[i].id = g
                     /\ \A j \in 1..Len(f.entries) : f.entries[j].id = g => j <= i
  IN [g \in ids |-> f.entries[lastOf(g)].codepoint]

mappings(f) ==
  IF f.fault.site = "mappings" THEN Err(f.fault.err) ELSE Ok(MappingsMap(f))

\* the iteration orders of a HashMap with keys K: every arrangement of them
Orders(K) ==
  {s \in [1..Cardinality(K) -> K] : \A i, j \in 1..Cardinality(K) : i # j => s[i] # s[j]}

\* the loop leaving at the first glyph without a name (break for continue)
RECURSIVE all_chars_loop_break(_, _, _, _)
all_chars_loop_break(f, chars, i, glyphs) ==
  IF i > Len(chars) THEN Ok(glyphs)
  ELSE LET r == find_glyph(f, chars[i][2])
       IN IF ~r.ok THEN r
          ELSE IF r.val = None THEN Ok(glyphs)
          ELSE all_chars_loop_break(f, chars, i + 1, Append(glyphs, r.val[1]))

\* the loop passing over a lookup that fails
RECURSIVE all_chars_loop_skip_errors(_, _, _, _)
all_chars_loop_skip_errors(f, chars, i, glyphs) ==
  IF i > Len(chars) THEN Ok(glyphs)
  ELSE LET r == find_glyph(f, chars[i][2])
       IN IF ~r.ok THEN all_chars_loop_skip_errors(f, chars, i + 1, glyphs)
          ELSE IF r.val = None THEN all_chars_loop_skip_errors(f, chars, i + 1, glyphs)
          ELSE all_chars_loop_skip_errors(f, chars, i + 1, Append(glyphs, r.val[1]))

\* the loop storing the key of the enumerated pair as the record's codepoint
RECURSIVE all_chars_loop_key_as_codepoint(_, _, _, _)
all_chars_loop_key_as_codepoint(f, chars, i, glyphs) ==
  IF i > Len(chars) THEN Ok(glyphs)
  ELSE LET r == find_glyph(f, chars[i][2])
       IN IF ~r.ok THEN r
          ELSE IF r.val = None
            THEN all_chars_loop_key_as_codepoint(f, chars, i + 1, glyphs)
          ELSE all_chars_loop_key_as_codepoint(f, chars, i + 1,
                 Append(glyphs, [r.val[1] EXCEPT !.codepoint = chars[i][1]]))

\* the loop of FontMapper::all_chars over chars[i..], glyphs collected so far
RECURSIVE all_chars_loop(_, _, _, _)
all_chars_loop(f, chars, i, glyphs) ==
  IF i > Len(chars) THEN Ok(glyphs)
  ELSE LET r == find_glyph(f, chars[i][2])
       IN IF ~r.ok THEN r
          ELSE IF r.val = None THEN all_chars_loop(f, chars, i + 1, glyphs)
          ELSE all_chars_loop(f, chars, i + 1, Append(glyphs, r.val[1]))

\* all_chars passing over the first enumerated pair
all_chars_skip_first(f, order) ==
  LET chars == mappings(f)
  IN IF ~chars.ok THEN Err(FontErrorFrom(chars.err[1]))
     ELSE all_chars_loop(f, [i \in 1..Len(order) |-> <<order[i], chars.val[order[i]]>>],
                         2, <<>>)

\* FontMapper::all_chars, the HashMap iterated in the given order of its keys
all_chars(f, order) ==
  LET chars == mappings(f)
  IN IF ~chars.ok THEN Err(FontErrorFrom(chars.err[1]))
     ELSE all_chars_loop(f, [i \in 1..Len(order) |-> <<order[i], chars.val[order[i]]>>],
                         1, <<>>)

\* char without the validity check (char::from_u32_unchecked)
char_unchecked(g) == Some(g.codepoint)

\* Glyph::char
char(g) == from_u32(g.codepoint)

\* BitmapGlyph.bitmap: Bitmap::Encapsulated { format, data } or Bitmap::Embedded
EncapsulatedFormats == {"Jpeg", "Png", "Tiff", "Svg", "Other"}

ByteStrings == SeqsUpTo(Bytes, MaxBytes)

Payloads ==
  [kind : {"Encapsulated"}, format : EncapsulatedFormats, data : ByteStrings]
    \cup [kind : {"Embedded"}, format : {"Raw"}, data : ByteStrings]

\* export naming JPEG data "jpeg"
export_jpeg_extension(bitmap) ==
  IF bitmap.kind = "Encapsulated"
    THEN CASE bitmap.format = "Jpeg" -> Some(<<"jpeg", bitmap.data>>)
           [] bitmap.format = "Png" -> Some(<<"png", bitmap.data>>)
           [] bitmap.format = "Tiff" -> Some(<<"tiff", bitmap.data>>)
           [] bitmap.format = "Svg" -> Some(<<"svg", bitmap.data>>)
           [] OTHER -> None
    ELSE Some(<<"bmp", bitmap.data>>)

\* BitmapExt::export
export(bitmap) ==
  IF bitmap.kind = "Encapsulated"
    THEN CASE bitmap.format = "Jpeg" -> Some(<<"jpg", bitmap.data>>)
           [] bitmap.format = "Png" -> Some(<<"png", bitmap.data>>)
           [] bitmap.format = "Tiff" -> Some(<<"tiff", bitmap.data>>)
           [] bitmap.format = "Svg" -> Some(<<"svg", bitmap.data>>)
           [] OTHER -> None
    ELSE Some(<<"bmp", bitmap.data>>)

\* ---------------------------------------------------------------- state
\* font:    what the decoder reads out of the immutable font buffer
\* mappers: the number of FontMapper values alive (each borrows the font)
\* last:    the latest call, its argument and what it returned
\* memo:    the first find_glyph / all_chars call answered, as in last
NoCall == [op |-> "none", arg |-> <<>>, res |-> <<>>]

Remember(call) == IF memo = NoCall THEN call ELSE memo

Init ==
  /\ font \in Fonts
  /\ mappers = 0
  /\ memo = NoCall
  /\ last = NoCall

\* FontMapper::new: CmapSubtable::read over the font's subtable bytes
MapperNew ==
  /\ mappers < MaxMappers
  /\ IF font.fault.site = "read"
       THEN /\ last' = [op |-> "new", arg |-> <<>>,
                        res |-> Err(FontErrorFrom(font.fault.err))]
            /\ UNCHANGED mappers
       ELSE /\ last' = [op |-> "new", arg |-> <<>>, res |-> Ok(<<>>)]
            /\ mappers' = mappers + 1
  /\ UNCHANGED <<font, memo>>

\* a FontMapper goes out of scope
MapperDrop ==
  /\ mappers > 0
  /\ mappers' = mappers - 1
  /\ last' = [op |-> "drop", arg |-> <<>>, res |-> <<>>]
  /\ UNCHANGED <<font, memo>>

FindGlyph ==
  /\ mappers > 0
  /\ \E c \in CodePoints :
       LET call == [op |-> "find_glyph", arg |-> <<c>>, res |-> find_glyph(font, c)]
       IN /\ last' = call
          /\ memo' = Remember(call)
  /\ UNCHANGED <<font, mappers>>

AllChars ==
  /\ mappers > 0
  /\ \E order \in Orders({font.entries[i].id : i \in 1..Len(font.entries)}) :
       LET call == [op |-> "all_chars", arg |-> <<>>, res |-> all_chars(font, order)]
       IN /\ last' = call
          /\ memo' = Remember(call)
  /\ UNCHANGED <<font, mappers>>

\* Font::index_of takes &mut self: no FontMapper borrows the font
IndexOf ==
  /\ mappers = 0
  /\ \E c \in CodePoints :
       last' = [op |-> "index_of", arg |-> <<c>>, res |-> index_of(font, c)]
  /\ UNCHANGED <<font, mappers, memo>>

\* the Glyph records the latest call returned
Returned(call) ==
  IF call.op = "find_glyph" /\ call.res.ok THEN {call.res.val[i] : i \in 1..Len(call.res.val)}
  ELSE IF call.op = "all_chars" /\ call.res.ok
    THEN {call.res.val[i] : i \in 1..Len(call.res.val)}
  ELSE {}

\* Glyph::char on a record the latest call returned
GlyphChar ==
  /\ \E g \in Returned(last) :
       last' = [op |-> "char", arg |-> <<g>>, res |-> char(g)]
  /\ UNCHANGED <<font, mappers, memo>>

Next == MapperNew \/ MapperDrop \/ FindGlyph \/ AllChars \/ IndexOf \/ GlyphChar

Spec == Init /\ [][Next]_vars

\* ------------------------------------------------- export, on its own
NoFont ==
  [entries |-> <<>>, named |-> {},
   fault |-> [site |-> "none", err |-> NoError, codepoint |-> 0]]

InitExport ==
  /\ font = NoFont
  /\ mappers = 0
  /\ memo = NoCall
  /\ last = NoCall

Export ==
  /\ \E bitmap \in Payloads :
       last' = [op |-> "export", arg |-> <<bitmap>>, res |-> export(bitmap)]
  /\ UNCHANGED <<font, mappers, memo>>

NextExport == Export

SpecExport == InitExport /\ [][NextExport]_vars

\* ---------------------------------------------------------------- claims
\* a Unicode scalar value: at most 0x10FFFF and not a surrogate
IsUnicodeScalar(c) == (c >= 0 /\ c <= 55295) \/ (c >= 57344 /\ c <= 1114111)

\* the subtable declares the pair (c, id)
Declares(c, id) ==
  \E i \in 1..Len(font.entries) : font.entries[i] = [codepoint |-> c, id |-> id]

Declared(c) == \E id \in GlyphIds : Declares(c, id)

\* the subtable lookup of c fails structurally
LookupFails(c) == font.fault.site = "map_glyph" /\ font.fault.codepoint = c

\* the glyph ids the subtable declares, and those of them with a name
DeclaredIds == {id \in GlyphIds : \E c \in MappableCodePoints : Declares(c, id)}

NamedIds == DeclaredIds \cap font.named

GlyphOf(c, id) == [id |-> id, codepoint |-> c, name |-> GlyphNameTable(id)]

Elems(v) == {v[i] : i \in 1..Len(v)}

\* C1 as stated: for every codepoint c the subtable maps to a glyph id,
\* find_glyph(c) returns Some(g) with g.codepoint = c and g.id that id
C1_AsStated ==
  last.op = "find_glyph" =>
    \A id \in GlyphIds :
      (Declares(last.arg[1], id) /\ ~LookupFails(last.arg[1])) =>
        /\ last.res.ok
        /\ last.res.val # None
        /\ last.res.val[1].codepoint = last.arg[1]
        /\ last.res.val[1].id = id

\* C1 amended: for every codepoint c the subtable maps to a glyph id whose
\* name glyph_name resolves, find_glyph(c) returns Some(g) with g.codepoint = c
\* and g.id that id; when the name does not resolve it returns Ok(None)
C1_MappedNamedFound ==
  last.op = "find_glyph" =>
    \A id \in GlyphIds :
      (Declares(last.arg[1], id) /\ ~LookupFails(last.arg[1])) =>
        IF id \in font.named
          THEN last.res = Ok(Some(GlyphOf(last.arg[1], id)))
          ELSE last.res = Ok(None)

C1_Witness ==
  /\ last.op = "find_glyph"
  /\ \E id \in font.named : Declares(last.arg[1], id)
  /\ last.res.ok
  /\ last.res.val # None

\* C2: for every codepoint c the subtable does not map (its lookup finding
\* nothing), find_glyph(c) returns Ok(None) and not an error
C2_UnmappedIsNone ==
  (last.op = "find_glyph" /\ ~Declared(last.arg[1]) /\ ~LookupFails(last.arg[1])) =>
    last.res = Ok(None)

C2_Witness ==
  /\ last.op = "find_glyph"
  /\ last.arg[1] > 1114111
  /\ font.entries # <<>>
  /\ last.res = Ok(None)

\* C3: every record all_chars returns has the name glyph_name resolves for
\* its id, there are at most as many records as mapped entries, and a font
\* with exactly 2 named and 1 unnamed mapped glyphs yields exactly 2 records
C3_OnlyNamedRecords ==
  (last.op = "all_chars" /\ last.res.ok) =>
    /\ \A g \in Elems(last.res.val) :
         g.id \in font.named /\ g.name = GlyphNameTable(g.id)
    /\ Len(last.res.val) <= Len(font.entries)
    /\ (Cardinality(NamedIds) = 2 /\ Cardinality(DeclaredIds \ font.named) = 1)
         => Len(last.res.val) = 2

C3_Witness ==
  /\ last.op = "all_chars"
  /\ last.res.ok
  /\ Cardinality(NamedIds) = 2
  /\ Cardinality(DeclaredIds \ font.named) = 1
  /\ Len(last.res.val) = 2

\* C4: round trip: for every record g of all_chars, find_glyph(g.codepoint)
\* on the same font returns Some(g), the same id, codepoint and name
C4_RoundTrip ==
  /\ (last.op = "all_chars" /\ last.res.ok) =>
       \A g \in Elems(last.res.val) : find_glyph(font, g.codepoint) = Ok(Some(g))
  /\ (memo.op = "all_chars" /\ memo.res.ok /\ last.op = "find_glyph") =>
       \A g \in Elems(memo.res.val) :
         g.codepoint = last.arg[1] => last.res = Ok(Some(g))

C4_Witness ==
  /\ memo.op = "all_chars"
  /\ memo.res.ok
  /\ last.op = "find_glyph"
  /\ \E g \in Elems(memo.res.val) : g.codepoint = last.arg[1] /\ last.res = Ok(Some(g))

\* the declared pairs whose glyph has a name, in the subtable's order
RECURSIVE NativeNamed(_)
NativeNamed(i) ==
  IF i = 0 THEN <<>>
  ELSE IF font.entries[i].id \in font.named
    THEN Append(NativeNamed(i - 1), GlyphOf(font.entries[i].codepoint, font.entries[i].id))
  ELSE NativeNamed(i - 1)

\* C5 as stated: all_chars returns one record per declared pair whose name
\* resolves, none dropped, in the subtable's native order
C5_AsStated ==
  (last.op = "all_chars" /\ last.res.ok) =>
    last.res.val = NativeNamed(Len(font.entries))

\* C5 amended: all_chars returns exactly one record per distinct glyph id
\* the subtable declares whose name resolves, each a declared pair of that
\* id (of several codepoints mapped to one glyph id only one is reported),
\* in no particular order
C5_OneRecordPerNamedGlyph ==
  (last.op = "all_chars" /\ last.res.ok) =>
    /\ \A g \in Elems(last.res.val) :
         Declares(g.codepoint, g.id) /\ g = GlyphOf(g.codepoint, g.id)
    /\ {g.id : g \in Elems(last.res.val)} = NamedIds
    /\ Len(last.res.val) = Cardinality(NamedIds)

C5_Witness ==
  /\ last.op = "all_chars"
  /\ last.res.ok
  /\ Len(last.res.val) = 2
  /\ Cardinality(NamedIds) = 2
  /\ Len(NativeNamed(Len(font.entries))) = 3

\* C6 as stated: any two all_chars calls on the unchanged font return the
\* same sequence in the same order, and any two find_glyph calls with the
\* same codepoint return the same result
C6_AsStated ==
  (memo # NoCall /\ last.op = memo.op /\ last.arg = memo.arg) => last.res = memo.res

\* C6 amended: any two all_chars calls on the unchanged font both fail or
\* both succeed with the same records, each as often, though the order of
\* the records may differ from call to call; any two find_glyph calls with
\* the same codepoint return the same result
C6_SameRecords ==
  /\ (memo.op = "find_glyph" /\ last.op = "find_glyph" /\ last.arg = memo.arg)
       => last.res = memo.res
  /\ (memo.op = "all_chars" /\ last.op = "all_chars") =>
       /\ last.res.ok = memo.res.ok
       /\ last.res.ok =>
            /\ Elems(last.res.val) = Elems(memo.res.val)
            /\ Len(last.res.val) = Len(memo.res.val)
            /\ Len(last.res.val) = Cardinality(Elems(last.res.val))

C6_Witness ==
  /\ memo.op = "all_chars"
  /\ last.op = "all_chars"
  /\ last.res.ok
  /\ last.res # memo.res
  /\ Elems(last.res.val) = Elems(memo.res.val)

\* C7: export classifies by the fixed table and never alters the bytes:
\* Jpeg, Png, Tiff and Svg give ("jpg" | "png" | "tiff" | "svg", data), any
\* other encapsulated format gives None, raw pixels give ("bmp", data)
C7_ExportTable ==
  last.op = "export" =>
    LET bitmap == last.arg[1]
    IN /\ (bitmap.kind = "Encapsulated" /\ bitmap.format = "Jpeg")
            => last.res = <<<<"jpg", bitmap.data>>>>
       /\ (bitmap.kind = "Encapsulated" /\ bitmap.format = "Png")
            => last.res = <<<<"png", bitmap.data>>>>
       /\ (bitmap.kind = "Encapsulated" /\ bitmap.format = "Tiff")
            => last.res = <<<<"tiff", bitmap.data>>>>
       /\ (bitmap.kind = "Encapsulated" /\ bitmap.format = "Svg")
            => last.res = <<<<"svg", bitmap.data>>>>
       /\ (bitmap.kind = "Encapsulated"
             /\ bitmap.format \notin {"Jpeg", "Png", "Tiff", "Svg"})
            => last.res = <<>>
       /\ bitmap.kind = "Embedded" => last.res = <<<<"bmp", bitmap.data>>>>

C7_Witness ==
  /\ last.op = "export"
  /\ last.arg[1].kind = "Encapsulated"
  /\ last.arg[1].format = "Png"
  /\ Len(last.arg[1].data) = MaxBytes
  /\ last.res = <<<<"png", last.arg[1].data>>>>

\* C8: index_of returns None exactly when the codepoint is not a Unicode
\* scalar value; for a scalar it returns Some(id), the mapped id or, when
\* the codepoint is unmapped, the no-glyph id 0
C8_IndexOf ==
  last.op = "index_of" =>
    /\ last.res = None <=> ~IsUnicodeScalar(last.arg[1])
    /\ (IsUnicodeScalar(last.arg[1]) /\ ~Declared(last.arg[1])) => last.res = <<0>>
    /\ \A id \in GlyphIds :
         (IsUnicodeScalar(last.arg[1]) /\ Declares(last.arg[1], id)
            /\ ~LookupFails(last.arg[1])) => last.res = <<id>>

C8_Witness ==
  /\ last.op = "index_of"
  /\ IsUnicodeScalar(last.arg[1])
  /\ ~Declared(last.arg[1])
  /\ font.entries # <<>>
  /\ last.res = <<0>>

\* the codepoints all_chars looks up: those mappings() enumerates
Enumerated == {MappingsMap(font)[id] : id \in DOMAIN MappingsMap(font)}

\* C9: FontMapper::new fails when the subtable does not parse, all_chars
\* fails (no empty or partial list) when decoding the mappings fails or the
\* lookup of an enumerated codepoint fails; the error keeps kind and cause
C9_MalformationIsError ==
  LET failure == Err([variant |-> font.fault.err.kind, source |-> font.fault.err])
  IN /\ (last.op = "new" /\ font.fault.site = "read") => last.res = failure
     /\ font.fault.site = "read" => mappers = 0
     /\ (last.op = "all_chars" /\ font.fault.site = "mappings") => last.res = failure
     /\ (last.op = "all_chars" /\ font.fault.site = "map_glyph"
           /\ font.fault.codepoint \in Enumerated) => last.res = failure

C9_Witness ==
  /\ last.op = "all_chars"
  /\ font.fault.site = "map_glyph"
  /\ font.fault.codepoint \in Enumerated
  /\ Len(font.entries) = MaxEntries
  /\ ~last.res.ok

\* C10 as stated: every Glyph record find_glyph or all_chars produces holds
\* a Unicode scalar value, so Glyph::char returns Some for it
C10_AsStated ==
  /\ \A g \in Returned(last) : IsUnicodeScalar(g.codepoint)
  /\ last.op = "char" => last.res # None

\* C10 amended: every Glyph record find_glyph or all_chars produces holds a
\* codepoint the subtable maps to the record's id, a Unicode scalar value or
\* not, and Glyph::char returns Some for it exactly when it is one
C10_CharIffScalar ==
  /\ \A g \in Returned(last) : Declares(g.codepoint, g.id)
  /\ last.op = "char" =>
       /\ Declares(last.arg[1].codepoint, last.arg[1].id)
       /\ last.res = IF IsUnicodeScalar(last.arg[1].codepoint)
                       THEN <<last.arg[1].codepoint>> ELSE <<>>

C10_Witness ==
  /\ last.op = "char"
  /\ ~IsUnicodeScalar(last.arg[1].codepoint)
  /\ last.res = None

====
